---------------------------- MODULE Spec2Model ----------------------------
(***************************************************************************)
(* Retrieval pipeline of the trade assistant: the reranker                 *)
(* (api/services/reranker.py), the data-driven topic classifier            *)
(* (api/services/data_driven_trade_filter.py, reanalysed in the background *)
(* by api/routers/data_config_router.py) and the per-conversation memory   *)
(* of the ask handlers (rag_server.py, api/routers/ask_router.py).         *)
(*                                                                         *)
(* Scores and confidences are floats in the source.  Every confidence the  *)
(* classifier adds is a multiple of 0.1, so relevance is kept in tenths    *)
(* and a quotient is kept as the pair num/den.  Reranker scores are only   *)
(* compared, so they are kept as integer levels.                           *)
(***************************************************************************)
EXTENDS Integers, Sequences, FiniteSets, TLC

VARIABLES
    rr_in,                 \* arguments of the last RerankerService.rerank call
    rr_out,                \* the RerankResult it returned
    data_folder,           \* os.listdir(self.data_folder), in listing order
    chroma_db,             \* topics and entities found in the indexed content
    hashOrder,             \* iteration order of this process's sets
    data_analysis,         \* DataDrivenTradeFilter.data_analysis
    topic_document_map,    \* DataDrivenTradeFilter.topic_document_map
    config_file,           \* the configuration written by _save_config
    an,                    \* the thread running _analyze_data_content
    cls,                   \* the classify_question call in progress
    classification,        \* the last TopicClassification returned
    previous,              \* the one returned before it against the same profile
    completed_map,         \* topic_document_map as the last finished analysis left it
    reanalyses,            \* reanalyses triggered so far
    handler,               \* the ask handler this process serves
    conversation_memory,   \* conversation id -> list of turns
    req,                   \* the ask requests in flight, by slot
    turnCount,             \* turns appended so far, by conversation id
    clearedUpTo,           \* turnCount of the conversation at its last clear
    response,              \* the response an ask request has just returned
    clears,                \* clear requests served so far
    disk,                  \* the persist directories of the vector store
    inits,                 \* the initialize_vectorstore calls, by process
    initializations,       \* initialize_vectorstore calls started so far
    rebuilt,               \* the last forced rebuild that completed, 0 if none
    svc_in,                \* arguments of the last retrieval or ingestion call
    svc_out                \* what it returned

rerankVars == <<rr_in, rr_out>>

classifierVars ==
    <<data_folder, chroma_db, hashOrder, data_analysis, topic_document_map,
      config_file, an, cls, classification, previous, completed_map, reanalyses>>

askVars ==
    <<handler, conversation_memory, req, turnCount, clearedUpTo, response, clears>>

storeVars == <<disk, inits, initializations, rebuilt>>

serviceVars == <<svc_in, svc_out>>

vars == <<rerankVars, classifierVars, askVars, storeVars, serviceVars>>

None == [none |-> TRUE]

Min(a, b) == IF a <= b THEN a ELSE b
Max(a, b) == IF a >= b THEN a ELSE b

Range(s) == {s[i] : i \in 1..Len(s)}

\* s[:n] of Python for n >= 0
Take(s, n) == SubSeq(s, 1, Min(n, Len(s)))

\* s[-n:] of Python for n >= 1
LastN(s, n) == SubSeq(s, Max(1, Len(s) - n + 1), Len(s))

-----------------------------------------------------------------------------
(* Reranker                                                                *)

MaxChunks == 6             \* longest candidate list passed to rerank
MaxScore == 1              \* original scores are levels 0..MaxScore
MaxTopK == 3               \* largest top_k a caller passes
TOP_K_RERANK == 5          \* settings.TOP_K_RERANK

Scores == 0..MaxScore

\* A retrieved chunk is its position in the candidate list and its score;
\* the "score" key may be missing.

\* chunk i of a candidate list: with score sc, or without one if sc = -1
ChunkAt(i, sc) == IF sc = -1 THEN [id |-> i] ELSE [id |-> i, score |-> sc]

\* candidate lists: chunk i of the list has id i
ChunkLists ==
    UNION {{[i \in 1..n |-> ChunkAt(i, scs[i])] : scs \in [1..n -> Scores \cup {-1}]} :
           n \in 0..MaxChunks}

\* chunk.get("score", 0.0)
ChunkScore(chunk) == IF "score" \in DOMAIN chunk THEN chunk.score ELSE 0

\* one insertion of Python's stable sorted(..., reverse=True): c goes behind
\* every element whose key is >= its own
RECURSIVE InsertDesc(_, _)
InsertDesc(sorted, c) ==
    IF sorted = <<>> THEN <<c>>
    ELSE IF ChunkScore(Head(sorted)) >= ChunkScore(c)
         THEN <<Head(sorted)>> \o InsertDesc(Tail(sorted), c)
         ELSE <<c>> \o sorted

RECURSIVE SortedByScoreDesc(_)
SortedByScoreDesc(chunks) ==
    IF chunks = <<>> THEN <<>>
    ELSE InsertDesc(SortedByScoreDesc(SubSeq(chunks, 1, Len(chunks) - 1)),
                    chunks[Len(chunks)])

\* mutant: top_chunks keeps the tail of the sorted list
RerankByScoreTail(chunks, top_k) ==
    LET sorted_chunks == SortedByScoreDesc(chunks)
        top_chunks == LastN(sorted_chunks, Max(top_k, 1))
    IN  [reranked_chunks |-> top_chunks,
         scores |-> [i \in 1..Len(top_chunks) |-> ChunkScore(top_chunks[i])]]

\* RerankerService._rerank_by_score for top_k >= 0
RerankByScore(chunks, top_k) ==
    LET sorted_chunks == SortedByScoreDesc(chunks)
        top_chunks == Take(sorted_chunks, top_k)
    IN  [reranked_chunks |-> top_chunks,
         scores |-> [i \in 1..Len(top_chunks) |-> ChunkScore(top_chunks[i])]]


MaxLLMChunks == 3          \* longest candidate list reranked with an LLM key set
MaxReply == 2              \* most numbers in an LLM ranking reply

\* the numbers re.findall(r'\b\d+\b', rankings_text) yields, as integers
RECURSIVE ValidIndices(_, _, _)
ValidIndices(numbers, max_index, ranked_indices) ==
    IF numbers = <<>> THEN ranked_indices
    ELSE LET idx == Head(numbers)
         IN  ValidIndices(Tail(numbers), max_index,
                 IF 0 <= idx /\ idx < max_index /\ idx \notin Range(ranked_indices)
                 THEN Append(ranked_indices, idx)
                 ELSE ranked_indices)

\* RerankerService._parse_llm_rankings: indices are 0-based
ParseLLMRankings(numbers, max_index) ==
    LET ranked_indices == ValidIndices(numbers, max_index, <<>>)
    IN  IF ranked_indices = <<>>
        THEN [i \in 1..max_index |-> i - 1]
        ELSE ranked_indices

\* RerankerService._rerank_with_llm; llm is the provider's reply
\* [status, numbers]; new_score = 1.0 - rank / len(ranked_indices) is kept as
\* the pair num/den
RerankWithLLM(chunks, top_k, llm) ==
    IF llm.status # "ok"
    THEN RerankByScore(chunks, top_k)
    ELSE LET ranked_indices == ParseLLMRankings(llm.numbers, Len(chunks))
             kept == Take(ranked_indices, top_k)
             n == Len(ranked_indices)
         IN  [reranked_chunks |->
                  [r \in 1..Len(kept) |->
                      [id |-> chunks[kept[r] + 1].id,
                       score |-> ChunkScore(chunks[kept[r] + 1]),
                       rerank_score |-> [num |-> n - (r - 1), den |-> n]]],
              scores |-> [r \in 1..Len(kept) |-> [num |-> n - (r - 1), den |-> n]]]

\* the top_k argument: omitted (None), or an integer
NoTopK == [given |-> FALSE]
TopK(n) == [given |-> TRUE, value |-> n]

\* rerank_top_k = top_k or self.top_k_rerank
RerankTopK(top_k) ==
    IF ~top_k.given \/ top_k.value = 0 THEN TOP_K_RERANK ELSE top_k.value

\* RerankerService.rerank
Rerank(chunks, top_k, llm_api_key, llm) ==
    LET rerank_top_k == RerankTopK(top_k)
    IN  IF chunks = <<>>
        THEN [reranked_chunks |-> <<>>, scores |-> <<>>]
        ELSE IF Len(chunks) <= rerank_top_k
        THEN [reranked_chunks |-> chunks,
              scores |-> [i \in 1..Len(chunks) |-> ChunkScore(chunks[i])]]
        ELSE IF llm_api_key
        THEN RerankWithLLM(chunks, rerank_top_k, llm)
        ELSE RerankByScore(chunks, rerank_top_k)

TopKs == {NoTopK} \cup {TopK(n) : n \in 0..MaxTopK}

LLMReplies ==
    {[status |-> "http_error", numbers |-> <<>>],
     [status |-> "exception", numbers |-> <<>>]}
    \cup {[status |-> "ok", numbers |-> ns] :
            ns \in UNION {[1..k -> 0..(MaxLLMChunks + 1)] : k \in 0..MaxReply}}

\* a call of rerank, without an LLM key (llm unused) or with one, or a call
\* of _rerank_by_score itself (top_k an integer, the key and llm unused)
RerankCallArgs(method, chunks, top_k, llm_api_key, llm) ==
    [method |-> method, chunks |-> chunks, top_k |-> top_k,
     llm_api_key |-> llm_api_key, llm |-> llm]

MaxTokens == 2             \* tokens of an LLM ranking text

\* a token of the ranking text: a word, or a run of digits with or without
\* a minus sign before it
Word == [kind |-> "word", negative |-> FALSE, digits |-> 0]
Number(negative, digits) == [kind |-> "number", negative |-> negative, digits |-> digits]
Tokens == {Word} \cup {Number(b, d) : b \in BOOLEAN, d \in 0..(MaxLLMChunks + 1)}
RankingTexts == UNION {[1..k -> Tokens] : k \in 0..MaxTokens}

\* int(num_str) for num_str in re.findall(r'\b\d+\b', rankings_text): the
\* runs of digits, a minus sign before one being no part of it
RECURSIVE FindAllNumbers(_)
FindAllNumbers(rankings_text) ==
    IF rankings_text = <<>> THEN <<>>
    ELSE (IF Head(rankings_text).kind = "number"
          THEN <<Head(rankings_text).digits>> ELSE <<>>)
            \o FindAllNumbers(Tail(rankings_text))

\* the calls that are checked
RerankInit ==
    /\ rr_out = None
    /\ \E chunks \in ChunkLists, top_k \in TopKs :
        \/ rr_in = RerankCallArgs("rerank", chunks, top_k, FALSE, None)
        \/ /\ Len(chunks) <= MaxLLMChunks
           /\ \E llm \in LLMReplies :
                rr_in = RerankCallArgs("rerank", chunks, top_k, TRUE, llm)
        \/ /\ top_k.given
           /\ rr_in = RerankCallArgs("_rerank_by_score", chunks, top_k, FALSE, None)
        \/ /\ chunks = <<>> /\ top_k = NoTopK
           /\ \E rankings_text \in RankingTexts, max_index \in 0..MaxLLMChunks :
                rr_in = [RerankCallArgs("_parse_llm_rankings", chunks, top_k, TRUE, None)
                            EXCEPT !.llm = [rankings_text |-> rankings_text,
                                            max_index |-> max_index]]

\* one call of RerankerService.rerank
RerankCall ==
    /\ rr_out = None
    /\ rr_in.method = "rerank"
    /\ rr_out' = Rerank(rr_in.chunks, rr_in.top_k, rr_in.llm_api_key, rr_in.llm)
    /\ UNCHANGED <<rr_in, classifierVars, askVars, storeVars, serviceVars>>

\* one call of RerankerService._rerank_by_score
RerankByScoreCall ==
    /\ rr_out = None
    /\ rr_in.method = "_rerank_by_score"
    /\ rr_out' = RerankByScore(rr_in.chunks, rr_in.top_k.value)
    /\ UNCHANGED <<rr_in, classifierVars, askVars, storeVars, serviceVars>>

\* one call of RerankerService._parse_llm_rankings
ParseLLMRankingsCall ==
    /\ rr_out = None
    /\ rr_in.method = "_parse_llm_rankings"
    /\ rr_out' = [ranked_indices |->
                     ParseLLMRankings(FindAllNumbers(rr_in.llm.rankings_text),
                                      rr_in.llm.max_index)]
    /\ UNCHANGED <<rr_in, classifierVars, askVars, storeVars, serviceVars>>

\* the top_k a call asks for: what _rerank_by_score is given, and what rerank
\* makes of its argument
EffectiveTopK(call) ==
    IF call.method = "rerank" THEN RerankTopK(call.top_k) ELSE call.top_k.value

\* score-based mode: no LLM key is set
ScoreMode(call) == ~call.llm_api_key

NonIncreasing(chunks) ==
    \A i, j \in 1..Len(chunks) : i < j => ChunkScore(chunks[i]) >= ChunkScore(chunks[j])

\* C3: in score-based mode the scores of the list rerank returns are
\* non-increasing along the list, for every non-empty candidate list and every
\* top_k, also with no more candidates than top_k.
C3_ScoreModeNonIncreasing ==
    (rr_out # None /\ rr_in.method = "rerank" /\ ScoreMode(rr_in)
        /\ rr_in.chunks # <<>>)
    => NonIncreasing(rr_out.reranked_chunks)

\* C4: rerank never returns more than N chunks for an N >= 0 the caller
\* passes, with or without an LLM key; the configured default bounds the
\* result only when N is omitted.
C4_AtMostN ==
    (rr_out # None /\ rr_in.method = "rerank")
    => Len(rr_out.reranked_chunks)
         <= (IF rr_in.top_k.given THEN rr_in.top_k.value ELSE TOP_K_RERANK)

\* chunk a goes before chunk b in a stable descending sort of the candidates
\* (a chunk's id is its position in the candidate list)
Before(a, b) ==
    \/ ChunkScore(a) > ChunkScore(b)
    \/ ChunkScore(a) = ChunkScore(b) /\ a.id < b.id

\* C5: score-based rerank of more candidates than top_k returns exactly top_k
\* chunks, which are the top_k highest-scored candidates in descending order
\* with equal scores in input order, every candidate left out coming after
\* every one returned; and the scores list holds their original scores.
C5_TopKOfStableSort ==
    (rr_out # None /\ ScoreMode(rr_in) /\ Len(rr_in.chunks) > EffectiveTopK(rr_in))
    => LET out == rr_out.reranked_chunks
           top_k == EffectiveTopK(rr_in)
       IN  /\ Len(out) = top_k
           /\ \A i \in 1..Len(out) :
                /\ out[i].id \in 1..Len(rr_in.chunks)
                /\ out[i] = rr_in.chunks[out[i].id]
           /\ \A i, j \in 1..Len(out) : i < j => Before(out[i], out[j])
           /\ \A c \in Range(rr_in.chunks) \ Range(out) :
                \A o \in Range(out) : Before(o, c)
           /\ DOMAIN rr_out.scores = DOMAIN out
           /\ \A i \in 1..Len(out) : rr_out.scores[i] = ChunkScore(out[i])

\* a score-based rerank has cut a list between two candidates of equal score,
\* returned two of equal score, and moved a candidate to the front
C5_Witness ==
    /\ rr_out # None
    /\ rr_in.method = "rerank"
    /\ ScoreMode(rr_in)
    /\ Len(rr_in.chunks) > EffectiveTopK(rr_in)
    /\ Len(rr_out.reranked_chunks) >= 2
    /\ LET out == rr_out.reranked_chunks
       IN  /\ ChunkScore(out[1]) > ChunkScore(out[Len(out)])
           /\ ChunkScore(out[Len(out) - 1]) = ChunkScore(out[Len(out)])
           /\ \E c \in Range(rr_in.chunks) \ Range(out) :
                ChunkScore(c) = ChunkScore(out[Len(out)])
           /\ out[1].id # 1

\* the integers a ranking text names, in the order of the text
RECURSIVE NamedIntegers(_)
NamedIntegers(rankings_text) ==
    IF rankings_text = <<>> THEN <<>>
    ELSE LET t == Head(rankings_text)
         IN  (IF t.kind = "number"
              THEN <<IF t.negative THEN 0 - t.digits ELSE t.digits>> ELSE <<>>)
                \o NamedIntegers(Tail(rankings_text))

\* the named integers that are indices of 0..max_index-1, each once, in
\* order of first appearance
RECURSIVE NamedIndices(_, _, _)
NamedIndices(named, max_index, seen) ==
    IF named = <<>> THEN <<>>
    ELSE LET idx == Head(named)
             keep == idx >= 0 /\ idx < max_index /\ idx \notin seen
         IN  (IF keep THEN <<idx>> ELSE <<>>)
                \o NamedIndices(Tail(named), max_index, seen \cup {idx})

ParsedCall == rr_out # None /\ rr_in.method = "_parse_llm_rankings"

\* C23: for a text that names a valid index, _parse_llm_rankings returns
\* exactly the indices 0 <= idx < max_index named in the text, in order of
\* first appearance and without duplicates: an index out of range or a
\* negative one is filtered out.
C23_OnlyNamedValidIndices ==
    ParsedCall =>
        LET named == NamedIndices(NamedIntegers(rr_in.llm.rankings_text),
                                  rr_in.llm.max_index, {})
        IN  named # <<>> => rr_out.ranked_indices = named

\* the ids of a list of chunks, in order
Ids(chunks) == [i \in 1..Len(chunks) |-> chunks[i].id]

\* an LLM-mode call of rerank with more candidates than top_k, so that the LLM
\* is asked, whose reply was received and names no index of the candidates
NothingUsable ==
    /\ rr_out # None
    /\ rr_in.method = "rerank"
    /\ ~ScoreMode(rr_in)
    /\ Len(rr_in.chunks) > EffectiveTopK(rr_in)
    /\ rr_in.llm.status = "ok"
    /\ ValidIndices(rr_in.llm.numbers, Len(rr_in.chunks), <<>>) = <<>>

\* C24: when the LLM's reply yields no usable index, LLM-mode rerank returns
\* the top N candidates by original score in descending order, exactly the
\* chunks _rerank_by_score returns for them.
C24_FallsBackToScoreMode ==
    NothingUsable =>
        Ids(rr_out.reranked_chunks)
            = Ids(RerankByScore(rr_in.chunks, EffectiveTopK(rr_in)).reranked_chunks)

-----------------------------------------------------------------------------
(* Topic classifier (domain gate)                                          *)

MaxReanalyses == 1         \* reanalyses triggered in a run

\* The files of the data folder, by number:
\*   1..12  export_guide_<n>.pdf       13  customs_tariff.pdf
\*   14     export_certificate.docx    15  notes.txt
\*   16     readme.md
ExportGuides == 1..12

\* filename.lower().endswith(('.docx', '.pdf', '.txt'))
SupportedFile(filename) == filename \in 1..15

\* DataDrivenTradeFilter._extract_topics_from_filename on those names
ExtractTopicsFromFilename(filename) ==
    IF filename \in ExportGuides THEN {"export"}
    ELSE IF filename = 13 THEN {"customs"}
    ELSE IF filename = 14 THEN {"certification", "export"}
    ELSE {}

\* listings of the data folder; <<>> is a missing or empty folder
CorpusSmall == <<1, 2, 13, 14, 15, 16>>
CorpusExport == <<1, 2, 3, 4, 5, 6, 7, 8, 9, 10, 11, 12>>
Corpora == {<<>>, CorpusSmall, CorpusExport}

\* what _analyze_chromadb_content returns: nothing (no ChromaDB), or the
\* topics and entities _extract_topics_from_content and
\* _extract_entities_from_content find in the sampled chunk
\* "IEC export license and export procedure"
IndexedContents ==
    {[topics |-> {}, entities |-> {}],
     [topics |-> {"export_procedures", "iec_procedures", "licensing"},
      entities |-> {"IEC"}]}

\* every topic a profile of these corpora can hold, in sorted() order
TopicOrder ==
    <<"certification", "customs", "dgft", "export", "export_procedures",
      "iec_procedures", "import", "licensing", "trade">>
AllTopics == Range(TopicOrder)

EntityOrder == <<"CBIC", "DGFT", "HSN", "IEC">>

\* the questions asked, with what the substring tests of classify_question
\* find in question.lower().strip():
\*   words       len(question_lower.split())
\*   topics      the topics of AllTopics one of whose _get_topic_keywords occurs
\*   entities    the entities whose lower case occurs
\*   indicators  whether one of trade_indicators occurs
Questions ==
    {[text |-> "How do I apply for an export certificate?", words |-> 8,
      topics |-> {"export", "certification"}, entities |-> {}, indicators |-> TRUE],
     [text |-> "What is the weather today?", words |-> 5,
      topics |-> {}, entities |-> {}, indicators |-> FALSE],
     [text |-> "licensing", words |-> 1,
      topics |-> {"licensing"}, entities |-> {}, indicators |-> FALSE],
     [text |-> "What is the IEC code?", words |-> 5,
      topics |-> {}, entities |-> {"IEC"}, indicators |-> FALSE]}

\* sorted(list(all_topics))
SortedTopics(topics) == SelectSeq(TopicOrder, LAMBDA t : t \in topics)

\* list(aSet): the elements in the order this process iterates a set
RECURSIVE SetToList(_, _)
SetToList(S, order) ==
    IF S = {} THEN <<>>
    ELSE LET x == IF order = "asc"
                  THEN CHOOSE y \in S : \A z \in S : y <= z
                  ELSE CHOOSE y \in S : \A z \in S : y >= z
         IN  <<x>> \o SetToList(S \ {x}, order)

\* the entities of a set in iteration order
EntityList(entities, order) ==
    LET asc == SelectSeq(EntityOrder, LAMBDA e : e \in entities)
    IN  IF order = "asc" THEN asc
        ELSE [i \in 1..Len(asc) |-> asc[Len(asc) + 1 - i]]

\* entity.lower()
Lower(entity) ==
    CASE entity = "CBIC" -> "cbic" [] entity = "DGFT" -> "dgft"
      [] entity = "HSN" -> "hsn" [] entity = "IEC" -> "iec"

\* one file of the loop of _analyze_document_filenames on the map: the file
\* is appended to the list of each of its topics
MapWithFile(map, filename) ==
    IF SupportedFile(filename)
    THEN [t \in AllTopics |->
            IF t \in ExtractTopicsFromFilename(filename)
            THEN Append(map[t], filename) ELSE map[t]]
    ELSE map

\* the same file on the local document_topics dict
DocumentTopicsWithFile(document_topics, filename) ==
    IF SupportedFile(filename)
    THEN [f \in DOMAIN document_topics \cup {filename} |->
            IF f = filename THEN ExtractTopicsFromFilename(filename)
            ELSE document_topics[f]]
    ELSE document_topics

\* min(doc_count / 10.0, 1.0), in tenths
TopicConfidence(doc_count) == Min(doc_count, 10)

\* mutant: the fixed topic_keywords are never written over the counted ones
CalculateConfidenceKeywordsCounted(key_topics, trade_entities, map) ==
    LET topics == Range(key_topics)
        keys == topics \cup {Lower(e) : e \in trade_entities}
    IN  [k \in keys |->
            IF k \in {Lower(e) : e \in trade_entities} THEN 8
            ELSE TopicConfidence(Len(map[k]))]

\* DataDrivenTradeFilter._calculate_confidence_keywords, in tenths; the
\* fixed topic_keywords are written last and override the counted ones
CalculateConfidenceKeywords(key_topics, trade_entities, map) ==
    LET topics == Range(key_topics)
        fixed == {"export", "import", "customs", "dgft", "documentation",
                  "compliance", "trade"}
        keys == topics \cup {Lower(e) : e \in trade_entities} \cup fixed
    IN  [k \in keys |->
            CASE k = "export" ->
                    IF topics \cap {"export", "export_procedures"} # {} THEN 9 ELSE 3
              [] k = "import" -> IF "import" \in topics THEN 9 ELSE 3
              [] k = "customs" -> IF "customs" \in topics THEN 8 ELSE 3
              [] k = "dgft" -> IF "dgft" \in topics THEN 9 ELSE 2
              [] k \in {"documentation", "compliance"} -> 7
              [] k = "trade" -> 8
              [] OTHER ->
                    IF k \in {Lower(e) : e \in trade_entities} THEN 8
                    ELSE TopicConfidence(Len(map[k]))]

\* steps 3 and 6 of _analyze_data_content and the DataAnalysis it stores
DataAnalysisOf(document_topics, indexed_content, map) ==
    LET all_topics == UNION {document_topics[f] : f \in DOMAIN document_topics}
                        \cup indexed_content.topics
        key_topics == SortedTopics(all_topics)
        trade_entities == indexed_content.entities
    IN  [total_documents |-> Cardinality(DOMAIN document_topics),
         key_topics |-> key_topics,
         trade_entities |-> trade_entities,
         confidence_keywords |->
             CalculateConfidenceKeywords(key_topics, trade_entities, map)]

\* DataDrivenTradeFilter._create_fallback_analysis
FallbackAnalysis ==
    [total_documents |-> 0,
     key_topics |-> <<"export", "import", "customs", "dgft", "trade">>,
     trade_entities |-> {"DGFT", "CBIC", "IEC", "HSN"},
     confidence_keywords |->
         [k \in {"trade", "export", "import"} |-> 5]]

\* what _generate_dynamic_config saves of the analysis
DynamicConfig(analysis, map) ==
    [total_documents |-> analysis.total_documents,
     allowed_topics |->
         [t \in Range(analysis.key_topics) |->
             [confidence |-> IF t \in DOMAIN analysis.confidence_keywords
                             THEN analysis.confidence_keywords[t] ELSE 5,
              related_documents |-> Len(map[t])]]]


\* mutant: matched_topics is a list shared by the calls (a mutable default)
ClassifyLocalsShared(question) ==
    [relevance_score |-> 0,
     matched_topics |-> IF previous = None THEN <<>>
                        ELSE previous.result.matched_topics,
     relevant_documents |-> <<>>]

\* the locals of classify_question before its loops
ClassifyLocals(question) ==
    [relevance_score |-> 0, matched_topics |-> <<>>, relevant_documents |-> <<>>]

\* one iteration of the loop over key_topics (step 1 of classify_question);
\* analysis and map are what self.data_analysis and self.topic_document_map
\* hold when the iteration runs
ClassifyTopic(loc, topic, question, analysis, map) ==
    IF topic \in question.topics
    THEN [relevance_score |->
              loc.relevance_score
              + (IF topic \in DOMAIN analysis.confidence_keywords
                 THEN analysis.confidence_keywords[topic] ELSE 5),
          matched_topics |-> Append(loc.matched_topics, topic),
          relevant_documents |-> loc.relevant_documents \o map[topic]]
    ELSE loc

\* f"entity:{entity}"
EntityTopic(entity) ==
    CASE entity = "CBIC" -> "entity:CBIC" [] entity = "DGFT" -> "entity:DGFT"
      [] entity = "HSN" -> "entity:HSN" [] entity = "IEC" -> "entity:IEC"

\* the loop over trade_entities (step 2), in the set's iteration order
RECURSIVE ClassifyEntities(_, _, _)
ClassifyEntities(loc, entities, question) ==
    IF entities = <<>> THEN loc
    ELSE ClassifyEntities(
            IF Head(entities) \in question.entities
            THEN [loc EXCEPT !.relevance_score = @ + 8,
                             !.matched_topics = Append(@, EntityTopic(Head(entities)))]
            ELSE loc,
            Tail(entities), question)

\* mutant: the gap is decided on the indicators alone
CoverageGapIndicatorsOnly(relevance_score, has_trade_indicators) ==
    ~has_trade_indicators

\* coverage_gap = relevance_score == 0.0 and not has_trade_indicators
CoverageGap(relevance_score, has_trade_indicators) ==
    relevance_score = 0 /\ ~has_trade_indicators

\* _generate_classification_reason; the confidence it prints is that of the
\* result
ClassificationReason(matched_topics, coverage_gap) ==
    IF coverage_gap THEN [kind |-> "No relevant topics found in trade data",
                          topics |-> <<>>]
    ELSE IF matched_topics # <<>>
    THEN [kind |-> "Matched data topics", topics |-> Take(matched_topics, 3)]
    ELSE [kind |-> "Low confidence match", topics |-> <<>>]

\* step 3 of classify_question and the TopicClassification it returns;
\* confidence_score = min(relevance_score / max(total_words, 1), 1.0) is the
\* pair num/den, relevance being in tenths
FinalClassification(loc, question, order) ==
    LET den == 10 * Max(question.words, 1)
        num == Min(loc.relevance_score, den)
        coverage_gap == CoverageGap(loc.relevance_score, question.indicators)
    IN  [is_data_related |->
             \/ 20 * num > den                     \* confidence_score > 0.05
             \/ loc.relevance_score > 3            \* relevance_score > 0.3
             \/ question.indicators,
         confidence_score |-> [num |-> num, den |-> den],
         matched_topics |-> loc.matched_topics,
         relevant_documents |->
             SetToList(Range(Take(loc.relevant_documents, 5)), order),
         reason |-> ClassificationReason(loc.matched_topics, coverage_gap),
         coverage_gap |-> coverage_gap]

RECURSIVE ClassifyTopics(_, _, _, _, _)
ClassifyTopics(loc, key_topics, question, analysis, map) ==
    IF key_topics = <<>> THEN loc
    ELSE ClassifyTopics(ClassifyTopic(loc, Head(key_topics), question, analysis, map),
                        Tail(key_topics), question, analysis, map)

\* classify_question run against one profile from start to end
ClassifyQuestion(question, analysis, map, order) ==
    FinalClassification(
        ClassifyEntities(
            ClassifyTopics(ClassifyLocals(question), analysis.key_topics,
                           question, analysis, map),
            EntityList(analysis.trade_entities, order), question),
        question, order)




\* what classify_question returns while self.data_analysis is unset
AnalysisNotAvailable ==
    [is_data_related |-> TRUE,
     confidence_score |-> [num |-> 5, den |-> 10],
     matched_topics |-> <<"unknown">>,
     relevant_documents |-> <<>>,
     reason |-> [kind |-> "Data analysis not available", topics |-> <<>>],
     coverage_gap |-> TRUE]

\* _analyze_document_filenames over a whole listing
RECURSIVE AnalyzeDocumentFilenames(_, _, _)
AnalyzeDocumentFilenames(files, document_topics, map) ==
    IF files = <<>> THEN [document_topics |-> document_topics, map |-> map]
    ELSE AnalyzeDocumentFilenames(Tail(files),
                                  DocumentTopicsWithFile(document_topics, Head(files)),
                                  MapWithFile(map, Head(files)))

EmptyMap == [t \in AllTopics |-> <<>>]
NoDocuments == [f \in {} |-> {}]
AnalysisIdle == [pc |-> "idle", files |-> <<>>, document_topics |-> NoDocuments]
ClassifyIdle == [pc |-> "idle"]

\* DataDrivenTradeFilter.__init__: the first analysis runs before the
\* instance is shared
ClassifierInit ==
    /\ data_folder \in Corpora
    /\ chroma_db \in IndexedContents
    /\ hashOrder \in {"asc", "desc"}
    /\ LET first == AnalyzeDocumentFilenames(data_folder, NoDocuments, EmptyMap)
           analysis == DataAnalysisOf(first.document_topics, chroma_db, first.map)
       IN  /\ topic_document_map = first.map
           /\ completed_map = first.map
           /\ data_analysis = analysis
           /\ config_file = DynamicConfig(analysis, first.map)
    /\ an = AnalysisIdle
    /\ cls = ClassifyIdle
    /\ classification = None
    /\ previous = None
    /\ reanalyses = 0

\* the call in progress, once the profile has changed under it
Disturbed(call) == IF call.pc = "idle" THEN call ELSE [call EXCEPT !.stable = FALSE]

\* trigger_data_reanalysis: the background task runs _analyze_data_content in
\* a worker thread, which lists the data folder as it is by then
ReanalyzeStart ==
    /\ classification = None
    /\ an.pc = "idle"
    /\ reanalyses < MaxReanalyses
    /\ reanalyses' = reanalyses + 1
    /\ \E files \in Corpora :
        /\ data_folder' = files
        /\ an' = [pc |-> "files", files |-> files, document_topics |-> NoDocuments]
    /\ UNCHANGED <<chroma_db, hashOrder, data_analysis, topic_document_map,
                   config_file, cls, classification, previous, completed_map>>
    /\ UNCHANGED <<rerankVars, askVars, storeVars, serviceVars>>

\* the same, os.listdir raising: _analyze_data_content ends in
\* _create_fallback_analysis
ReanalyzeFails ==
    /\ classification = None
    /\ an.pc = "idle"
    /\ reanalyses < MaxReanalyses
    /\ reanalyses' = reanalyses + 1
    /\ data_analysis' = FallbackAnalysis
    /\ cls' = Disturbed(cls)
    /\ previous' = None
    /\ UNCHANGED <<data_folder, chroma_db, hashOrder, topic_document_map,
                   config_file, an, classification, completed_map>>
    /\ UNCHANGED <<rerankVars, askVars, storeVars, serviceVars>>

\* one file of the loop of _analyze_document_filenames
AnalyzeFile ==
    /\ classification = None
    /\ an.pc = "files"
    /\ an.files # <<>>
    /\ topic_document_map' = MapWithFile(topic_document_map, Head(an.files))
    /\ an' = [an EXCEPT !.files = Tail(@),
                        !.document_topics =
                            DocumentTopicsWithFile(@, Head(an.files))]
    /\ IF topic_document_map' = topic_document_map
       THEN UNCHANGED <<cls, previous>>
       ELSE cls' = Disturbed(cls) /\ previous' = None
    /\ UNCHANGED <<data_folder, chroma_db, hashOrder, data_analysis, config_file,
                   classification, completed_map, reanalyses>>
    /\ UNCHANGED <<rerankVars, askVars, storeVars, serviceVars>>

\* steps 2 to 6 of _analyze_data_content, the store of self.data_analysis and
\* _generate_dynamic_config
AnalyzeStore ==
    /\ classification = None
    /\ an.pc = "files"
    /\ an.files = <<>>
    /\ LET analysis == DataAnalysisOf(an.document_topics, chroma_db,
                                      topic_document_map)
       IN  /\ data_analysis' = analysis
           /\ config_file' = DynamicConfig(analysis, topic_document_map)
    /\ completed_map' = topic_document_map
    /\ an' = AnalysisIdle
    /\ cls' = Disturbed(cls)
    /\ previous' = None
    /\ UNCHANGED <<data_folder, chroma_db, hashOrder, topic_document_map,
                   classification, reanalyses>>
    /\ UNCHANGED <<rerankVars, askVars, storeVars, serviceVars>>

\* classify_question is entered: the guard on self.data_analysis, the locals
\* and the iterator over self.data_analysis.key_topics.  old is the profile
\* the last finished analysis left.
ClassifyBegin ==
    /\ classification = None
    /\ cls.pc = "idle"
    /\ \E question \in Questions :
        IF data_analysis = None
        THEN /\ classification' = [question |-> question,
                                   result |-> AnalysisNotAvailable,
                                   stable |-> TRUE,
                                   old |-> [analysis |-> data_analysis,
                                            map |-> completed_map]]
             /\ cls' = cls
        ELSE /\ cls' = [pc |-> "topics", question |-> question,
                        key_topics |-> data_analysis.key_topics,
                        loc |-> ClassifyLocals(question), stable |-> TRUE,
                        old |-> [analysis |-> data_analysis, map |-> completed_map]]
             /\ UNCHANGED classification
    /\ UNCHANGED <<data_folder, chroma_db, hashOrder, data_analysis,
                   topic_document_map, config_file, an, previous, completed_map,
                   reanalyses>>
    /\ UNCHANGED <<rerankVars, askVars, storeVars, serviceVars>>

\* one iteration of the loop over the key topics
ClassifyTopicStep ==
    /\ classification = None
    /\ cls.pc = "topics"
    /\ cls.key_topics # <<>>
    /\ cls' = [cls EXCEPT !.key_topics = Tail(@),
                          !.loc = ClassifyTopic(@, Head(cls.key_topics), cls.question,
                                                data_analysis, topic_document_map)]
    /\ UNCHANGED <<data_folder, chroma_db, hashOrder, data_analysis,
                   topic_document_map, config_file, an, classification, previous,
                   completed_map, reanalyses>>
    /\ UNCHANGED <<rerankVars, askVars, storeVars, serviceVars>>

\* the loop over the entities, the decision and the return
ClassifyReturn ==
    /\ classification = None
    /\ cls.pc = "topics"
    /\ cls.key_topics = <<>>
    /\ classification' =
          [question |-> cls.question,
           result |-> FinalClassification(
                          ClassifyEntities(cls.loc,
                              EntityList(data_analysis.trade_entities, hashOrder),
                              cls.question),
                          cls.question, hashOrder),
           stable |-> cls.stable,
           old |-> cls.old]
    /\ cls' = ClassifyIdle
    /\ UNCHANGED <<data_folder, chroma_db, hashOrder, data_analysis,
                   topic_document_map, config_file, an, previous, completed_map,
                   reanalyses>>
    /\ UNCHANGED <<rerankVars, askVars, storeVars, serviceVars>>

\* the caller has taken the classification
ClassifyTaken ==
    /\ classification # None
    /\ previous' = IF classification.stable
                   THEN [question |-> classification.question,
                         result |-> classification.result]
                   ELSE previous
    /\ classification' = None
    /\ UNCHANGED <<data_folder, chroma_db, hashOrder, data_analysis,
                   topic_document_map, config_file, an, cls, completed_map,
                   reanalyses>>
    /\ UNCHANGED <<rerankVars, askVars, storeVars, serviceVars>>

ClassifierNext ==
    \/ ReanalyzeStart
    \/ ReanalyzeFails
    \/ AnalyzeFile
    \/ AnalyzeStore
    \/ ClassifyBegin
    \/ ClassifyTopicStep
    \/ ClassifyReturn
    \/ ClassifyTaken

\* a classification has been returned
Returned == classification # None

\* C6: no classification that classify_question returns has both
\* is_data_related and coverage_gap set, whatever the question and whatever
\* the state of the classifier.
C6_NoGapInScope ==
    Returned => ~(classification.result.is_data_related
                  /\ classification.result.coverage_gap)

\* a coverage gap has been returned (the question matched a topic that has no
\* supporting document) while a reanalysis was running
C6_Witness ==
    /\ Returned
    /\ classification.result.coverage_gap
    /\ classification.result.matched_topics # <<>>
    /\ an.pc = "files"

ExportQuestion ==
    CHOOSE q \in Questions : q.text = "How do I apply for an export certificate?"

\* the question of Scenario C has been classified against a profile analysed
\* from a corpus of 12 documents, all supporting the topic "export"
ScenarioC ==
    /\ Returned
    /\ classification.stable
    /\ classification.question = ExportQuestion
    /\ classification.old.analysis.total_documents = 12
    /\ Len(classification.old.map["export"]) = 12

\* C8 as stated: the question of Scenario C, against a corpus whose "export"
\* topic has 12 supporting documents, is in scope with a confidence_score
\* above 0.5 and "export" among the matched topics.
C8_ScenarioC_Original ==
    ScenarioC =>
        LET result == classification.result
        IN  /\ result.is_data_related
            /\ 2 * result.confidence_score.num > result.confidence_score.den
            /\ "export" \in Range(result.matched_topics)

\* C8 as amended: the question of Scenario C is in scope with "export" among
\* the matched topics, and its confidence_score is above the 0.05 threshold
\* but not above 0.5: it is 0.9 / 8 when "export" is the only topic matched.
C8_ScenarioC ==
    ScenarioC =>
        LET result == classification.result
        IN  /\ result.is_data_related
            /\ "export" \in Range(result.matched_topics)
            /\ 20 * result.confidence_score.num > result.confidence_score.den
            /\ ~(2 * result.confidence_score.num > result.confidence_score.den)
            /\ result.matched_topics = <<"export">>
                 => result.confidence_score = [num |-> 9, den |-> 80]

\* Scenario C has been classified, "export" being the only topic matched
C8_Witness ==
    /\ ScenarioC
    /\ classification.result.matched_topics = <<"export">>
    /\ Len(classification.result.relevant_documents) = 5

\* C9: whenever an analysis has finished, the first or a later one, no topic
\* of the topic-to-document map has more documents than the total document
\* count of the profile that analysis stored.
C9_CountsWithinTotal ==
    an.pc = "idle" =>
        \A topic \in DOMAIN topic_document_map :
            Len(topic_document_map[topic]) <= data_analysis.total_documents

\* the profile the reanalysis in progress stores when it completes, or the
\* stored one if none is in progress
PendingProfile ==
    IF an.pc = "files"
    THEN LET rest == AnalyzeDocumentFilenames(an.files, an.document_topics,
                                              topic_document_map)
         IN  [analysis |-> DataAnalysisOf(rest.document_topics, chroma_db, rest.map),
              map |-> rest.map]
    ELSE [analysis |-> data_analysis, map |-> completed_map]

\* C10: a classify_question call that runs while a reanalysis does returns
\* what it would return against the complete old profile or against the
\* complete new one.
C10_OldOrNewProfile ==
    (Returned /\ reanalyses > 0) =>
        \E profile \in {classification.old, PendingProfile} :
            classification.result =
                ClassifyQuestion(classification.question, profile.analysis,
                                 profile.map, hashOrder)

\* self.data_analysis.confidence_keywords.get(topic, 0.5), in tenths: the
\* confidence classify_question adds for a matched topic
UsedConfidence(analysis, topic) ==
    IF topic \in DOMAIN analysis.confidence_keywords
    THEN analysis.confidence_keywords[topic] ELSE 5

\* C27: for every topic of the profile an analysis stored, the confidence
\* classification uses is min(count / 10, 1.0), count being the number of
\* documents supporting the topic: it grows with the count and is at its
\* maximum from 10 documents on.
C27_ConfidenceFromCount ==
    (an.pc = "idle" /\ data_analysis # FallbackAnalysis) =>
        \A topic \in Range(data_analysis.key_topics) :
            UsedConfidence(data_analysis, topic)
                = Min(Len(topic_document_map[topic]), 10)

\* C29: whenever classify_question reports a coverage gap, matched_topics is
\* empty: the reason "No relevant topics found in trade data" never comes
\* with a matched topic, also for topics found only in indexed content.
C29_GapMatchesNothing ==
    (Returned /\ classification.stable /\ classification.result.coverage_gap)
        => /\ classification.result.matched_topics = <<>>
           /\ classification.result.reason.kind = "No relevant topics found in trade data"

-----------------------------------------------------------------------------
(* Conversation memory of the ask handlers                                 *)
(*                                                                         *)
(* The handlers are coroutines of one event loop: a request runs alone     *)
(* between two awaits.  A turn is named by its ordinal among the turns     *)
(* appended to its conversation, which orders turns as their timestamps    *)
(* do.  A request's conversation_history is the list object it read: while *)
(* that object is still the one stored for the conversation, an append to  *)
(* the stored list shows in it too.                                        *)

MaxTurns == 10             \* conversation_memory[conversation_id][-10:]
MaxAsks == 11              \* ask requests in a run that reach the memory update
MaxClears == 1             \* clear requests in a run

ConvIds == {"c1", "c2"}
Slots == {1, 2}
Handlers == {"interactive_ask", "ask_question"}

Idle == [pc |-> "idle"]

\* conversation_memory.get(conversation_id, [])
StoredHistory(memory, conversation_id) ==
    IF conversation_id \in DOMAIN memory THEN memory[conversation_id] ELSE <<>>

\* mutant: the turn is appended to the history the request read at its start
\* and that list is stored
MemoryAfterTurnFromRead(memory, conversation_id, history, new_turn) ==
    [c \in DOMAIN memory \cup {conversation_id} |->
        IF c = conversation_id
        THEN LastN(Append(history, new_turn), MaxTurns)
        ELSE memory[c]]

\* mutant: the list is trimmed before the turn is appended
MemoryAfterTurnTrimFirst(memory, conversation_id, history, new_turn) ==
    [c \in DOMAIN memory \cup {conversation_id} |->
        IF c = conversation_id
        THEN Append(LastN(StoredHistory(memory, conversation_id), MaxTurns), new_turn)
        ELSE memory[c]]

\* mutant: the first 10 turns are kept
MemoryAfterTurnKeepFirst(memory, conversation_id, history, new_turn) ==
    [c \in DOMAIN memory \cup {conversation_id} |->
        IF c = conversation_id
        THEN Take(Append(StoredHistory(memory, conversation_id), new_turn), MaxTurns)
        ELSE memory[c]]

\* "Update conversation memory": the entry is created if missing, the turn
\* appended to the stored list and the last 10 turns kept; history is the
\* list the request read at its start
MemoryAfterTurn(memory, conversation_id, history, new_turn) ==
    [c \in DOMAIN memory \cup {conversation_id} |->
        IF c = conversation_id
        THEN LastN(Append(StoredHistory(memory, conversation_id), new_turn), MaxTurns)
        ELSE memory[c]]

\* whether request r holds, as its conversation_history, the list object
\* stored for the conversation
SharesStoredList(r, conversation_id) ==
    r.pc # "idle" /\ r.conv = conversation_id /\ r.shared

InFlight == {s \in Slots : req[s].pc # "idle"}

\* the requests in flight fill the lowest slots, in order of arrival
InArrivalOrder(r) ==
    LET busy == SelectSeq([i \in 1..Cardinality(Slots) |-> r[i]],
                          LAMBDA x : x.pc # "idle")
    IN  [i \in Slots |-> IF i <= Len(busy) THEN busy[i] ELSE Idle]

RECURSIVE SumOver(_, _)
SumOver(f, S) ==
    IF S = {} THEN 0
    ELSE LET x == CHOOSE y \in S : TRUE IN f[x] + SumOver(f, S \ {x})

AskInit ==
    /\ handler \in Handlers
    /\ conversation_memory = [c \in {} |-> <<>>]
    /\ req = [s \in Slots |-> Idle]
    /\ turnCount = [c \in ConvIds |-> 0]
    /\ clearedUpTo = [c \in ConvIds |-> 0]
    /\ response = None
    /\ clears = 0

\* what the search hands handler h.  search_documents of rag_server returns
\* [] always, lazy_load_vector_store returning None; rag.search_documents
\* of ask_question returns the sources found or mocked, or none
SearchResults(h) ==
    IF h = "interactive_ask" THEN {<<>>} ELSE {<<>>, <<"mock_doc_0">>}

\* mutant: the gate lets every question through
GateOpen(data_classification) == FALSE

\* the data-driven gate of interactive_ask (DATA_FILTER_ENABLED is set, the
\* filter module being importable): the request is redirected
GateRedirects(data_classification) == ~data_classification.is_data_related

\* the response of a request that ends before its search; scope is what the
\* classifier said of the question, if it was asked and returned
EarlyResponse(conversation_id, outcome, scope) ==
    [conv |-> conversation_id, outcome |-> outcome, scope |-> scope,
     searched |-> FALSE, sources |-> <<>>,
     turn |-> 0, stale |-> FALSE, overtaken |-> FALSE, conversation_length |-> 0,
     stages |-> <<>>]

\* the error response of the handler: interactive_ask returns its fallback
\* AskResponse, ask_question raises HTTPException(500)
ErrorOutcome(h) == IF h = "interactive_ask" THEN "error_fallback" ELSE "http_500"

\* the handler up to its first await: the data-driven gate of
\* interactive_ask, then the read of the conversation history
AskStart(s) ==
    /\ response = None
    /\ req[s].pc = "idle"
    /\ \A t \in Slots : t < s => req[t].pc # "idle"
    /\ SumOver(turnCount, ConvIds) + Cardinality(InFlight) < MaxAsks
    /\ \E conversation_id \in ConvIds, question \in Questions, raises \in BOOLEAN :
        LET data_classification ==
                ClassifyQuestion(question, data_analysis, topic_document_map, hashOrder)
            scope == IF handler # "interactive_ask" THEN "unclassified"
                     ELSE IF data_classification.is_data_related THEN "in_scope"
                     ELSE "out_of_scope"
        IN  IF raises
            THEN /\ response' = EarlyResponse(conversation_id, ErrorOutcome(handler),
                                              "unclassified")
                 /\ req' = req
            ELSE IF handler = "interactive_ask" /\ GateRedirects(data_classification)
            THEN /\ response' = EarlyResponse(conversation_id, "redirected", scope)
                 /\ req' = req
            ELSE /\ req' = [req EXCEPT ![s] =
                        [pc |-> "search", conv |-> conversation_id, scope |-> scope,
                         history |-> StoredHistory(conversation_memory, conversation_id),
                         shared |-> conversation_id \in DOMAIN conversation_memory,
                         overtaken |-> FALSE,
                         conversation_length |-> 0,
                         stages |-> <<>>]]
                 /\ response' = response
    /\ UNCHANGED <<handler, conversation_memory, turnCount, clearedUpTo, clears>>
    /\ UNCHANGED <<rerankVars, classifierVars, storeVars, serviceVars>>

\* search_documents has returned: interactive_ask builds the conversation
\* context and awaits the generation, ask_question hands the sources and the
\* history to generate_response.  stages lists what the handler has done
\* with the question since the gate
AskSearched(s) ==
    /\ response = None
    /\ req[s].pc = "search"
    /\ req' = [req EXCEPT ![s].pc = "generate",
                          ![s].conversation_length = Len(req[s].history),
                          ![s].stages = <<"RETRIEVED", "CONTEXT_ASSEMBLED">>]
    /\ UNCHANGED <<handler, conversation_memory, turnCount, clearedUpTo, response,
                   clears>>
    /\ UNCHANGED <<rerankVars, classifierVars, storeVars, serviceVars>>

\* mutant: both handlers can raise after the memory update
RaisePointsAll(h) == {"no", "before_update", "after_update"}

\* where the rest of a handler can raise once the generation has returned:
\* before the memory update (the interactive elements, the suggestions, the
\* turn) or after it.  After its update interactive_ask only builds an
\* AskResponse from a str, lists it made itself and its own dict, which does
\* not raise; ask_question still calls estimate_tokens and validates values
\* of user_intent and the sources of the RAG integration
RaisePoints(h) ==
    IF h = "interactive_ask" THEN {"no", "before_update"}
    ELSE {"no", "before_update", "after_update"}

\* the generation has returned: the rest of the handler runs without an
\* await.  raises is where an exception is raised, if one is: before the
\* memory update, or after it while the response is built.  sources is what
\* search_documents had returned (nothing, also when it failed, or some
\* sources): the handler first uses it here
AskGenerated(s) ==
    /\ response = None
    /\ req[s].pc = "generate"
    /\ \E raises \in RaisePoints(handler), sources \in SearchResults(handler) :
        LET r == req[s]
            c == r.conv
            new_turn == turnCount[c] + 1
            updated == raises # "before_update"
            \* conversation_history after the append, as the handler sees it
            history == IF updated /\ r.shared THEN Append(r.history, new_turn)
                       ELSE r.history
        IN  /\ conversation_memory' =
                  IF updated
                  THEN MemoryAfterTurn(conversation_memory, c, r.history, new_turn)
                  ELSE conversation_memory
            /\ turnCount' = IF updated THEN [turnCount EXCEPT ![c] = new_turn]
                            ELSE turnCount
            /\ response' =
                  [conv |-> c,
                   outcome |-> IF raises = "no" THEN "answered"
                               ELSE ErrorOutcome(handler),
                   scope |-> r.scope,
                   searched |-> TRUE,
                   sources |-> IF raises = "no" THEN sources ELSE <<>>,
                   turn |-> IF updated THEN new_turn ELSE 0,
                   stale |-> r.history # StoredHistory(conversation_memory, c),
                   overtaken |-> r.overtaken,
                   stages |-> r.stages,
                   conversation_length |->
                       IF handler = "interactive_ask" THEN r.conversation_length
                       ELSE Len(history)]
            /\ req' = InArrivalOrder([t \in Slots |->
                  IF t = s THEN Idle
                  ELSE IF updated /\ SharesStoredList(req[t], c)
                  \* the append shows in the list the other request holds; the
                  \* trimmed list stored afterwards is a new object
                  THEN [req[t] EXCEPT !.history = Append(@, new_turn),
                                      !.shared = FALSE]
                  ELSE req[t]])
    /\ UNCHANGED <<handler, clearedUpTo, clears>>
    /\ UNCHANGED <<rerankVars, classifierVars, storeVars, serviceVars>>

\* the response has been sent
AskDeliver ==
    /\ response # None
    /\ response' = None
    /\ UNCHANGED <<handler, conversation_memory, req, turnCount, clearedUpTo, clears>>
    /\ UNCHANGED <<rerankVars, classifierVars, storeVars, serviceVars>>

\* clear_conversation: del conversation_memory[conversation_id]
ClearConversation(conversation_id) ==
    /\ response = None
    /\ clears < MaxClears
    /\ clears' = clears + 1
    /\ conversation_memory' =
          [c \in DOMAIN conversation_memory \ {conversation_id} |->
              conversation_memory[c]]
    /\ clearedUpTo' = [clearedUpTo EXCEPT ![conversation_id] = turnCount[conversation_id]]
    /\ req' = [t \in Slots |->
                  IF req[t].pc # "idle" /\ req[t].conv = conversation_id
                  \* the request goes on with the list it read; overtaken
                  \* records that a clear removed the conversation's list
                  \* while it was in flight
                  THEN [req[t] EXCEPT
                           !.shared = FALSE,
                           !.overtaken = @ \/ conversation_id \in DOMAIN conversation_memory]
                  ELSE req[t]]
    /\ UNCHANGED <<handler, turnCount, response>>
    /\ UNCHANGED <<rerankVars, classifierVars, storeVars, serviceVars>>

\* the turns conversation c holds if none was lost: the last 10 of those
\* appended since it was last cleared, oldest first
TurnsKept(c) ==
    LET first == Max(clearedUpTo[c], turnCount[c] - MaxTurns)
    IN  [i \in 1..(turnCount[c] - first) |-> first + i]

\* C1: the history stored for a conversation id never holds more than 10
\* turns, after any interleaving of ask requests and clears.
C1_HistoryAtMostTen ==
    \A c \in DOMAIN conversation_memory : Len(conversation_memory[c]) <= MaxTurns

\* an eleventh turn has been appended to a conversation and the oldest dropped
C1_Witness ==
    /\ response # None
    /\ response.turn = MaxTurns + 1
    /\ clears = 0
    /\ Len(conversation_memory[response.conv]) = MaxTurns
    /\ conversation_memory[response.conv][1] = 2

\* C2: no appended turn is lost when ask requests for one conversation id
\* overlap: the stored history is, oldest first, every turn appended since
\* the last clear that the 10-turn cap has not evicted.
C2_NoLostTurn ==
    \A c \in ConvIds : StoredHistory(conversation_memory, c) = TurnsKept(c)

\* a request has appended its turn to a history that another request of the
\* conversation changed after this one read it, and both turns are stored
C2_Witness ==
    /\ response # None
    /\ response.outcome = "answered"
    /\ response.stale
    /\ clears = 0
    /\ response.turn >= 2
    /\ {response.turn - 1, response.turn} \subseteq Range(conversation_memory[response.conv])

\* a request is in flight past the gate: search_documents has been invoked
\* for it
Searching(s) == req[s].pc # "idle"

\* C11: a question the classifier marks out of scope makes interactive_ask
\* return the redirect payload with no source, and search_documents is never
\* invoked for that request.
C11_OutOfScopeRedirected ==
    /\ \A s \in Slots : Searching(s) => req[s].scope # "out_of_scope"
    /\ (response # None /\ response.scope = "out_of_scope")
         => /\ response.outcome = "redirected"
            /\ response.sources = <<>>
            /\ ~response.searched

\* a redirect has been returned while another request was being served
C11_Witness ==
    /\ response # None
    /\ response.scope = "out_of_scope"
    /\ response.outcome = "redirected"
    /\ \E s \in Slots : Searching(s)

\* C12: every ask request ends by handing the caller a structurally valid
\* response, whichever step failed: never in a raised exception or an error
\* response.
C12_AlwaysValidResponse ==
    response # None => response.outcome \in {"answered", "redirected", "error_fallback"}

\* a turn is appended to conversation c in this step
Appends(c) == turnCount'[c] = turnCount[c] + 1

\* C21: appending a turn to a conversation that holds 10 turns evicts
\* exactly the oldest: the list stored afterwards is the previous list
\* without its first element, followed by the new turn.
C21_OldestEvicted ==
    [][\A c \in ConvIds :
          (Appends(c) /\ Len(StoredHistory(conversation_memory, c)) = MaxTurns)
              => conversation_memory'[c]
                    = Append(Tail(conversation_memory[c]), turnCount'[c])]_vars

\* an eleventh turn has been appended to a full list, and the first is gone
C21_Witness ==
    /\ response # None
    /\ response.turn = MaxTurns + 1
    /\ Len(conversation_memory[response.conv]) = MaxTurns
    /\ conversation_memory[response.conv][MaxTurns] = MaxTurns + 1
    /\ conversation_memory[response.conv][1] = 2

\* C22: once clear_conversation(id) has returned, the history stored for
\* id holds only turns of ask requests that started after the clear, also
\* when a request for id was in flight while the clear ran.
C22_ClearedForGood ==
    /\ \A c \in ConvIds :
          \A t \in Range(StoredHistory(conversation_memory, c)) : t > clearedUpTo[c]
    /\ (response # None /\ response.overtaken)
          => response.turn \notin Range(StoredHistory(conversation_memory, response.conv))

\* the stages named follow one another, in that order, in stages
InOrder(stages, named) ==
    \E at \in [1..Len(named) -> 1..Len(stages)] :
        /\ \A i \in 1..Len(named) : stages[at[i]] = named[i]
        /\ \A i, j \in 1..Len(named) : i < j => at[i] < at[j]

\* C25: every in-scope question passes through RETRIEVED, RERANKED and
\* CONTEXT_ASSEMBLED in that order: once its context is handed to the
\* generator, a rerank step has run after the retrieval and before it.
C25_RerankedBeforeContext ==
    \A s \in Slots :
        (req[s].pc = "generate" /\ req[s].scope # "out_of_scope")
            => InOrder(req[s].stages, <<"RETRIEVED", "RERANKED", "CONTEXT_ASSEMBLED">>)

\* this step returns the answer of a request that was alone in flight and
\* whose history nobody else changed
AnswersAlone ==
    /\ response = None
    /\ response' # None
    /\ response'.outcome = "answered"
    /\ Cardinality(InFlight) = 1
    /\ ~response'.stale
    /\ ~response'.overtaken

\* C28: the conversation_length an ask response reports is the number of
\* turns that were stored for the conversation before the request's own turn
\* was appended, 0 for a new conversation, and so never more than 10.
C28_LengthBeforeAppend ==
    [][AnswersAlone =>
          /\ response'.conversation_length
                = Len(StoredHistory(conversation_memory, response'.conv))
          /\ response'.conversation_length <= MaxTurns]_vars

\* this step hands the caller of interactive_ask the redirect or the error
\* fallback
EndsWithoutAnswer ==
    /\ handler = "interactive_ask"
    /\ response = None
    /\ response' # None
    /\ response'.outcome \in {"redirected", "error_fallback"}

\* C30: an interactive_ask request that is redirected as out of scope, or
\* that ends in the error fallback, leaves the conversation memory as it
\* was: no turn is appended and no entry is created for its conversation.
C30_NoTurnWithoutAnswer ==
    [][EndsWithoutAnswer =>
          /\ conversation_memory' = conversation_memory
          /\ turnCount' = turnCount]_vars

\* a request of a conversation that has no entry has ended in the error
\* fallback after its search, while another conversation holds turns
C30_Witness ==
    /\ handler = "interactive_ask"
    /\ response # None
    /\ response.outcome = "error_fallback"
    /\ response.searched
    /\ response.conv \notin DOMAIN conversation_memory
    /\ \E c \in DOMAIN conversation_memory : Len(conversation_memory[c]) >= 2

-----------------------------------------------------------------------------
(* The vector store: api/services/vector_store.py                          *)
(*                                                                         *)
(* A persist directory is a Chroma collection on disk.  Every record is    *)
(* the pair <<n, i>>: document i as embedded by initialisation n, 0 being  *)
(* the one that left the directory found at start.                         *)

MaxDocs == 2               \* documents load_documents may return
MaxInitializations == 3    \* initialize_vectorstore calls

Procs == {1, 2}
Dirs == {"chroma_db", "chroma_db_new"}

\* the directory VectorStore.load_vectorstore reopens by default
DefaultDirectory == "chroma_db"

\* persist_dir of initialize_vectorstore
PersistDir(force_rebuild) == IF force_rebuild THEN "chroma_db_new" ELSE "chroma_db"

Missing == [exists |-> FALSE, readable |-> TRUE, records |-> {}]
Unreadable == [exists |-> TRUE, readable |-> FALSE, records |-> {}]
Populated(n, docs) == [exists |-> TRUE, readable |-> TRUE, records |-> {n} \X (1..docs)]

\* load_vectorstore: the directory exists and Chroma opens it
LoadVectorstore(dir) == dir.exists /\ dir.readable

NoInit ==
    [pc |-> "idle", force_rebuild |-> FALSE, persist_directory |-> DefaultDirectory,
     n |-> 0, documents |-> 0, added |-> 0, loaded |-> FALSE, load_count |-> 0,
     after |-> 0, bm25 |-> {}]

\* VectorStore.setup_retriever: the documents of the BM25 retriever, which
\* are those a new DocumentLoader().load_documents() returns; none, the
\* retriever being the vector one alone, when it raises or returns nothing
SetupRetriever(raises, documents) == IF raises THEN {} ELSE 1..documents

StoreInit ==
    /\ disk \in [Dirs -> {Missing, Unreadable} \cup {Populated(0, d) : d \in 1..MaxDocs}]
    /\ disk["chroma_db_new"] = Missing
    /\ inits = [p \in Procs |-> NoInit]
    /\ initializations = 0
    /\ rebuilt = 0

\* initialize_vectorstore up to the call of create_vectorstore: the load of
\* the existing store unless force_rebuild, else DocumentLoader.load_documents,
\* which raises or returns `documents` documents.  After a load the next
\* call of load_documents is the one of setup_retriever
InitializeVectorstore(p, force_rebuild, raises, documents) ==
    /\ inits[p].pc = "idle"
    /\ initializations < MaxInitializations
    /\ initializations' = initializations + 1
    /\ LET persist_dir == PersistDir(force_rebuild)
           loaded == ~force_rebuild /\ LoadVectorstore(disk[persist_dir])
           call == [NoInit EXCEPT !.force_rebuild = force_rebuild,
                                  !.persist_directory = persist_dir,
                                  !.n = initializations + 1,
                                  !.after = rebuilt]
       IN  inits' = [inits EXCEPT ![p] =
               IF loaded
               THEN [call EXCEPT !.pc = "ready", !.loaded = TRUE,
                                 !.load_count = Cardinality(disk[persist_dir].records),
                                 !.bm25 = SetupRetriever(raises, documents)]
               ELSE IF raises \/ documents = 0
               THEN [call EXCEPT !.pc = "failed"]
               ELSE [call EXCEPT !.pc = "creating", !.documents = documents]]
    /\ UNCHANGED <<disk, rebuilt>>
    /\ UNCHANGED <<rerankVars, classifierVars, askVars, serviceVars>>

\* Chroma.from_documents opens the collection of persist_directory, creating
\* the directory when it is missing; an unreadable one raises, and
\* initialize_vectorstore returns None
CreateVectorstore(p) ==
    /\ inits[p].pc = "creating"
    /\ LET d == inits[p].persist_directory
       IN  IF disk[d].exists /\ ~disk[d].readable
           THEN /\ inits' = [inits EXCEPT ![p].pc = "failed"]
                /\ UNCHANGED disk
           ELSE /\ disk' = [disk EXCEPT ![d].exists = TRUE]
                /\ inits' = [inits EXCEPT ![p].pc = "adding"]
    /\ UNCHANGED <<initializations, rebuilt>>
    /\ UNCHANGED <<rerankVars, classifierVars, askVars, serviceVars>>

\* from_documents embeds and adds the next document; after the last one
\* create_vectorstore returns and setup_retriever, loading the documents
\* anew, makes the store ready
AddTexts(p) ==
    /\ inits[p].pc = "adding"
    /\ LET d == inits[p].persist_directory
           i == inits[p].added + 1
           done == i = inits[p].documents
       IN  /\ disk' = [disk EXCEPT ![d].records = @ \cup {<<inits[p].n, i>>}]
           /\ \E raises \in BOOLEAN, documents \in 0..MaxDocs :
                inits' = [inits EXCEPT
                    ![p].added = i,
                    ![p].pc = IF done THEN "ready" ELSE "adding",
                    ![p].bm25 = IF done THEN SetupRetriever(raises, documents) ELSE {}]
           /\ rebuilt' = IF done /\ inits[p].force_rebuild
                         THEN Max(rebuilt, inits[p].n) ELSE rebuilt
    /\ UNCHANGED initializations
    /\ UNCHANGED <<rerankVars, classifierVars, askVars, serviceVars>>

\* the embedding of the next document raises: initialize_vectorstore catches
\* it and returns None, what was written stays
AddTextsFails(p) ==
    /\ inits[p].pc = "adding"
    /\ inits' = [inits EXCEPT ![p].pc = "failed"]
    /\ UNCHANGED <<disk, initializations, rebuilt>>
    /\ UNCHANGED <<rerankVars, classifierVars, askVars, serviceVars>>

\* the caller drops the store it was given, or the None
Discard(p) ==
    /\ inits[p].pc \in {"ready", "failed"}
    /\ inits' = [inits EXCEPT ![p] = NoInit]
    /\ UNCHANGED <<disk, initializations, rebuilt>>
    /\ UNCHANGED <<rerankVars, classifierVars, askVars, serviceVars>>

StoreNext ==
    \/ \E p \in Procs, force_rebuild \in BOOLEAN, raises \in BOOLEAN, documents \in 0..MaxDocs :
          InitializeVectorstore(p, force_rebuild, raises, documents)
    \/ \E p \in Procs : CreateVectorstore(p)
    \/ \E p \in Procs : AddTexts(p)
    \/ \E p \in Procs : AddTextsFails(p)
    \/ \E p \in Procs : Discard(p)

\* p is inside Chroma.from_documents
Writing(p) == inits[p].pc \in {"creating", "adding"}

\* p holds a store it loads or queries
Reading(p) == inits[p].pc = "ready"

\* C13: a build never writes into the directory default loads read from,
\* and no store in use reads a directory a build is writing into.
C13_BuildApartFromReaders ==
    /\ \A p \in Procs : Writing(p) => inits[p].persist_directory # DefaultDirectory
    /\ \A p, q \in Procs :
          Reading(p) /\ Writing(q) => inits[p].persist_directory # inits[q].persist_directory

\* the records a ready store is served from
Served(p) == disk[inits[p].persist_directory].records

\* C14: a default initialisation started after forced rebuild n completed is
\* served from records of rebuild n or of a later build, never from the
\* records that were there before it.
C14_ServedFromRebuilt ==
    \A p \in Procs :
        (Reading(p) /\ ~inits[p].force_rebuild /\ inits[p].after # 0)
            => /\ Served(p) # {}
               /\ \A r \in Served(p) : r[1] >= inits[p].after

\* C15: load_vectorstore returned True only for a collection holding at
\* least one record.
C15_LoadedHasRecords ==
    \A p \in Procs : inits[p].loaded => inits[p].load_count >= 1

\* the documents whose chunks the collection of a ready store holds
Embedded(p) == {r[2] : r \in Served(p)}

\* C26: the BM25 index and the vector index of a hybrid retriever cover the
\* same chunks: every chunk of the BM25 index is in the collection the store
\* is served from, and every chunk of the collection is in the BM25 index.
C26_SameChunkSet ==
    \A p \in Procs :
        (Reading(p) /\ inits[p].bm25 # {}) => inits[p].bm25 = Embedded(p)

-----------------------------------------------------------------------------
(* Retrieval: api/services/vector_store.py (search_documents),             *)
(* api/services/retriever.py and api/rag_integration.py                    *)
(*                                                                         *)
(* Similarities are kept in tenths.  The index is the list of its chunks   *)
(* in the order the retriever ranks them for the query.                    *)

MaxIndexed == 3            \* chunks in the index
MaxK == 5                  \* results asked for

SIMILARITY_THRESHOLD == 7
TOP_K_RETRIEVAL == 10
TOP_K_RESULTS == 5

SimilarityLevels == {6, 8}

IndexedChunk(i, similarity) == [id |-> i, similarity |-> similarity, mock |-> FALSE]

\* the indexes of n chunks
Indexes(n) ==
    {[i \in 1..n |-> IndexedChunk(i, f[i])] : f \in [1..n -> SimilarityLevels]}

\* the outcome of a call: it raised, or returned value
Raises == [raised |-> TRUE, value |-> <<>>]
Returns(value) == [raised |-> FALSE, value |-> value]

\* self.retriever.get_relevant_documents(query): the chunks of the index as
\* ranked, there being fewer than the k = 5 of setup_retriever
GetRelevantDocuments(indexed, raises) == IF raises THEN Raises ELSE Returns(indexed)

\* VectorStore.search_documents(query, k)
VectorStoreSearchDocuments(retriever, indexed, raises, k) ==
    IF ~retriever THEN <<>>
    ELSE LET results == GetRelevantDocuments(indexed, raises)
         IN  IF results.raised THEN <<>> ELSE Take(results.value, k)

\* self.vector_store.similarity_search(query, k, threshold): VectorStore
\* defines no such method, the call raises AttributeError
SimilaritySearch(indexed, k, threshold) == Raises

EmptyRetrievalResult == [chunks |-> <<>>, total_results |-> 0]

\* RetrieverService.retrieve(query, top_k); the query decides the ranking
\* of the index only
Retrieve(vector_store, indexed, top_k) ==
    LET retrieval_top_k == IF ~top_k.given \/ top_k.value = 0 THEN TOP_K_RETRIEVAL ELSE top_k.value
    IN  IF ~vector_store THEN EmptyRetrievalResult
        ELSE LET search_results == SimilaritySearch(indexed, retrieval_top_k, SIMILARITY_THRESHOLD)
             IN  IF search_results.raised
                 THEN EmptyRetrievalResult
                 ELSE [chunks |-> search_results.value,
                       total_results |-> Len(search_results.value)]

\* RAGIntegration._mock_search_documents(query, top_k)
MockSearchDocuments(top_k) ==
    [i \in 1..Min(top_k, 3) |-> [id |-> i - 1, similarity |-> 9 - (i - 1), mock |-> TRUE]]

\* self.vector_store.search(query, top_k): VectorStore defines no such
\* method, the call raises AttributeError
VectorStoreSearch(indexed, top_k) == Raises

\* RAGIntegration.search_documents(query, top_k)
RAGSearchDocuments(is_initialized, vector_store, indexed, top_k) ==
    IF ~is_initialized \/ ~vector_store THEN MockSearchDocuments(top_k)
    ELSE LET results == VectorStoreSearch(indexed, top_k)
         IN  IF results.raised THEN MockSearchDocuments(top_k) ELSE results.value

\* the calls of the retrieval services
SearchDocumentsArgs(n, retriever, raises, k) ==
    \E indexed \in Indexes(n) :
        svc_in = [method |-> "search_documents", indexed |-> indexed,
                  retriever |-> retriever, raises |-> raises, k |-> k]

RetrieveArgs(n, vector_store, top_k) ==
    \E indexed \in Indexes(n) :
        svc_in = [method |-> "retrieve", indexed |-> indexed,
                  vector_store |-> vector_store, top_k |-> top_k]

RAGSearchArgs(n, is_initialized, vector_store, top_k) ==
    \E indexed \in Indexes(n) :
        svc_in = [method |-> "rag_search_documents", indexed |-> indexed,
                  is_initialized |-> is_initialized, vector_store |-> vector_store,
                  top_k |-> top_k]

SearchDocumentsCall ==
    /\ svc_in # None /\ svc_in.method = "search_documents" /\ svc_out = None
    /\ svc_out' = [chunks |-> VectorStoreSearchDocuments(svc_in.retriever, svc_in.indexed,
                                                        svc_in.raises, svc_in.k)]
    /\ UNCHANGED <<svc_in, rerankVars, classifierVars, askVars, storeVars>>

RetrieveCall ==
    /\ svc_in # None /\ svc_in.method = "retrieve" /\ svc_out = None
    /\ svc_out' = Retrieve(svc_in.vector_store, svc_in.indexed, svc_in.top_k)
    /\ UNCHANGED <<svc_in, rerankVars, classifierVars, askVars, storeVars>>

RAGSearchDocumentsCall ==
    /\ svc_in # None /\ svc_in.method = "rag_search_documents" /\ svc_out = None
    /\ svc_out' = [chunks |-> RAGSearchDocuments(svc_in.is_initialized, svc_in.vector_store,
                                                svc_in.indexed, svc_in.top_k)]
    /\ UNCHANGED <<svc_in, rerankVars, classifierVars, askVars, storeVars>>

MaxHistory == 4            \* turns of the history handed to retrieve_with_context

\* a string is the list of its words.  The questions asked
Queries == {<<"iec">>, <<"export", "license">>}

\* a turn: one with a question, one without, and one that is no dict
QuestionTurn(question) == [question |-> question, answer |-> <<"a">>]
AnswerTurn == [answer |-> <<"a">>]
NoDict == [none |-> TRUE]
Turns == {QuestionTurn(<<"q1">>), QuestionTurn(<<"q2", "more">>), AnswerTurn, NoDict}

\* " ".join(strings)
RECURSIVE Join(_)
Join(strings) ==
    IF strings = <<>> THEN <<>> ELSE Head(strings) \o Join(Tail(strings))

\* the context_queries of the turns; `"question" in turn` raises TypeError
\* on a turn that is no container
RECURSIVE ContextQueries(_)
ContextQueries(turns) ==
    IF turns = <<>> THEN Returns(<<>>)
    ELSE IF Head(turns) = NoDict THEN Raises
    ELSE LET rest == ContextQueries(Tail(turns))
         IN  IF rest.raised THEN Raises
             ELSE IF "question" \in DOMAIN Head(turns)
                  THEN Returns(<<Head(turns).question>> \o rest.value)
                  ELSE rest

\* the same over every turn of the history
EnhancedQueryAllTurns(query, conversation_history) ==
    LET context_queries == ContextQueries(conversation_history)
    IN  IF context_queries.raised THEN query
        ELSE IF context_queries.value = <<>> THEN query
        ELSE query \o <<"Context:">> \o Join(context_queries.value)

\* the query retrieve_with_context searches with: enhanced_query, or the
\* plain query of the fallback when building it raised
EnhancedQuery(query, conversation_history) ==
    LET context_queries ==
            IF conversation_history = <<>> THEN Returns(<<>>)
            ELSE ContextQueries(LastN(conversation_history, 3))
    IN  IF context_queries.raised THEN query
        ELSE IF context_queries.value = <<>> THEN query
        ELSE query \o <<"Context:">> \o Join(context_queries.value)

\* RetrieverService.retrieve_with_context(query, conversation_history, top_k)
RetrieveWithContext(vector_store, indexed, query, conversation_history, top_k) ==
    [searched |-> EnhancedQuery(query, conversation_history),
     result |-> Retrieve(vector_store, indexed, top_k)]

\* the histories of n turns
Histories(n) == [1..n -> Turns]

RetrieveWithContextArgs(n, vector_store, query) ==
    \E conversation_history \in Histories(n) :
        svc_in = [method |-> "retrieve_with_context", indexed |-> <<IndexedChunk(1, 8)>>,
                  vector_store |-> vector_store, query |-> query,
                  conversation_history |-> conversation_history, top_k |-> NoTopK]

RetrieveWithContextCall ==
    /\ svc_in # None /\ svc_in.method = "retrieve_with_context" /\ svc_out = None
    /\ svc_out' = RetrieveWithContext(svc_in.vector_store, svc_in.indexed, svc_in.query,
                                      svc_in.conversation_history, svc_in.top_k)
    /\ UNCHANGED <<svc_in, rerankVars, classifierVars, askVars, storeVars>>

\* retrieve_with_context has returned
Contextual ==
    svc_in # None /\ svc_out # None /\ svc_in.method = "retrieve_with_context"

\* the words of the questions of turns i..n of history h, in order
RECURSIVE QuestionWords(_, _)
QuestionWords(h, i) ==
    IF i > Len(h) THEN <<>>
    ELSE (IF "question" \in DOMAIN h[i] THEN h[i].question ELSE <<>>)
            \o QuestionWords(h, i + 1)

\* what the searched query holds after the original query
Appended == SubSeq(svc_out.searched, Len(svc_in.query) + 1, Len(svc_out.searched))

\* C20: the searched query begins with the original query; what follows it
\* is nothing, or the questions of the last 3 turns at most, in their order;
\* with an empty history the query is searched as it is.
C20_ContextAugmentsQuery ==
    Contextual
        => LET h == svc_in.conversation_history
           IN  /\ Take(svc_out.searched, Len(svc_in.query)) = svc_in.query
               /\ h = <<>> => svc_out.searched = svc_in.query
               /\ \/ Appended = <<>>
                  \/ Appended = <<"Context:">> \o QuestionWords(h, Max(1, Len(h) - 2))

\* four turns with a question each: the last three are appended, the first not
C20_Witness ==
    /\ Contextual
    /\ Len(svc_in.conversation_history) = 4
    /\ \A i \in 1..4 : "question" \in DOMAIN svc_in.conversation_history[i]
    /\ svc_in.conversation_history[1] # svc_in.conversation_history[2]
    /\ Len(Appended) > 3
    /\ Appended = <<"Context:">> \o QuestionWords(svc_in.conversation_history, 2)

\* a query of the index has returned
Queried ==
    /\ svc_in # None /\ svc_out # None
    /\ svc_in.method \in {"search_documents", "retrieve", "rag_search_documents"}

\* C16: every match an index query returns has a similarity at or above
\* the similarity threshold of the query.
C16_MatchesAtOrAboveThreshold ==
    (Queried /\ svc_in.method \in {"search_documents", "retrieve"})
        => \A i \in 1..Len(svc_out.chunks) :
              svc_out.chunks[i].similarity >= SIMILARITY_THRESHOLD

\* C17: a retrieval returns no more results than the index holds and every
\* source it returns is a chunk stored in the index, also when the vector
\* store is unavailable or the search fails.
C17_NeverPadded ==
    Queried
        => /\ Len(svc_out.chunks) <= Len(svc_in.indexed)
           /\ \A i \in 1..Len(svc_out.chunks) : svc_out.chunks[i] \in Range(svc_in.indexed)

-----------------------------------------------------------------------------
(* Ingestion: api/services/document_loader.py                              *)
(*                                                                         *)
(* A text is the list of the lengths of its pieces, runs of characters     *)
(* holding no newline and no blank, and the separator between them: two    *)
(* newlines between paragraphs, one blank between words.  A chunk is the   *)
(* offset in the text at which it starts and its length.                   *)

MaxParagraphs == 3         \* paragraphs of a text
MaxFiles == 3              \* files of the data folder

CHUNK_SIZE == 1000
CHUNK_OVERLAP == 200

ParagraphLens == {150, 296, 600}

ParagraphText(lens) == [separator |-> "\n\n", lens |-> lens]

\* a note of one short word
ShortText == [separator |-> " ", lens |-> <<60>>]

\* 79 words of 18 characters: 1500 characters
WordText == [separator |-> " ", lens |-> [i \in 1..79 |-> 18]]

\* the texts: paragraphs, words, or one short run
Texts ==
    {ParagraphText(lens) : lens \in UNION {[1..n -> ParagraphLens] : n \in 2..MaxParagraphs}}
        \cup {ShortText, WordText}

RECURSIVE SumLens(_)
SumLens(lens) == IF lens = <<>> THEN 0 ELSE Head(lens) + SumLens(Tail(lens))

\* len(text)
TextLen(text) == SumLens(text.lens) + Len(text.separator) * (Len(text.lens) - 1)

\* the splits of the given lengths, separator_len characters between them,
\* each with the offset it starts at
RECURSIVE Splits(_, _, _)
Splits(lens, offset, separator_len) ==
    IF lens = <<>> THEN <<>>
    ELSE <<[offset |-> offset, len |-> Head(lens)]>>
            \o Splits(Tail(lens), offset + Head(lens) + separator_len, separator_len)

\* text.split(separator)
SplitOn(text) == Splits(text.lens, 0, Len(text.separator))

\* list(text): the characters of a run
Characters(run) == Splits([i \in 1..run |-> 1], 0, 0)

\* the locals of _merge_splits before split i: current_doc is the splits
\* start..start+count-1, holding total characters
MergeLocals ==
    [i : Nat, start : Nat, count : Nat, total : Nat,
     docs : Seq([offset : Nat, len : Nat])]

\* current_doc joined: the chunk emitted
JoinDocs(splits, current) == [offset |-> splits[current.start].offset, len |-> current.total]

\* TextSplitter._merge_splits(splits, separator)
MergeSplits(splits, separator_len) ==
    LET \* the while loop: current_doc drops its first split until the
        \* overlap is kept and the split of length len fits
        PopSplits[current \in MergeLocals] ==
            LET len == splits[current.i].len
            IN  IF \/ current.total > CHUNK_OVERLAP
                   \/ /\ current.total + len
                            + (IF current.count > 0 THEN separator_len ELSE 0) > CHUNK_SIZE
                      /\ current.total > 0
                THEN PopSplits[[current EXCEPT
                         !.start = @ + 1,
                         !.count = @ - 1,
                         !.total = @ - (splits[current.start].len
                                          + (IF current.count > 1 THEN separator_len ELSE 0))]]
                ELSE current
        \* the for loop from split i on
        MergeFrom[current \in MergeLocals] ==
            IF current.i > Len(splits)
            THEN IF current.count > 0
                 THEN Append(current.docs, JoinDocs(splits, current))
                 ELSE current.docs
            ELSE LET len == splits[current.i].len
                     emit == /\ current.total + len
                                   + (IF current.count > 0 THEN separator_len ELSE 0) > CHUNK_SIZE
                             /\ current.count > 0
                     kept == IF emit
                             THEN PopSplits[[current EXCEPT
                                                !.docs = Append(@, JoinDocs(splits, current))]]
                             ELSE current
                 IN  MergeFrom[[i |-> current.i + 1,
                                start |-> IF kept.count = 0 THEN current.i ELSE kept.start,
                                count |-> kept.count + 1,
                                total |-> kept.total + len
                                            + (IF kept.count > 0 THEN separator_len ELSE 0),
                                docs |-> kept.docs]]
    IN  MergeFrom[[i |-> 1, start |-> 1, count |-> 0, total |-> 0, docs |-> <<>>]]

\* self.text_splitter.split_text(text): RecursiveCharacterTextSplitter with
\* separators "\n\n", "\n", " ", "".  The first one found in the text splits
\* it, every split being shorter than a chunk; a text holding none is split
\* into its characters
SplitText(text) ==
    IF Len(text.lens) > 1
    THEN MergeSplits(SplitOn(text), Len(text.separator))
    ELSE MergeSplits(Characters(text.lens[1]), 0)

SplitTextArgs(text) == svc_in = [method |-> "split_text", text |-> text]

SplitTextCall ==
    /\ svc_in # None /\ svc_in.method = "split_text" /\ svc_out = None
    /\ svc_out' = [chunks |-> SplitText(svc_in.text)]
    /\ UNCHANGED <<svc_in, rerankVars, classifierVars, askVars, storeVars>>

\* where chunk c ends
ChunkEnd(c) == c.offset + c.len

\* C18: the chunks of a text longer than the chunk size overlap, each with
\* the next, by exactly the overlap length, and cover the text from its
\* first character to its last; a text of 1,500 characters gives exactly
\* 2 chunks, the second starting at offset 800.
C18_ExactOverlap ==
    (/\ svc_in # None /\ svc_out # None
     /\ svc_in.method = "split_text"
     /\ TextLen(svc_in.text) > CHUNK_SIZE)
        => LET chunks == svc_out.chunks
           IN  /\ \A j \in 1..(Len(chunks) - 1) :
                     ChunkEnd(chunks[j]) - chunks[j + 1].offset = CHUNK_OVERLAP
               /\ chunks[1].offset = 0
               /\ ChunkEnd(chunks[Len(chunks)]) = TextLen(svc_in.text)
               /\ TextLen(svc_in.text) = 1500
                     => Len(chunks) = 2 /\ chunks[2].offset = 800

\* the texts of the files of the data folder
FileTexts == {ShortText, ParagraphText(<<600, 600, 296>>)}

\* a file of the data folder: its extension, whether some extraction
\* strategy gets text out of it, and that text
File(name, ext, readable, text) ==
    [name |-> name, ext |-> ext, readable |-> readable, text |-> text]

FileKinds ==
    {[ext |-> e, readable |-> FALSE, text |-> ShortText] : e \in {"docx", "pdf", "txt"}}
        \cup {[ext |-> e, readable |-> TRUE, text |-> t] : e \in {"docx", "pdf", "txt"}, t \in FileTexts}

\* os.listdir(self.data_folder) of n files
Folders(n) ==
    {[i \in 1..n |-> File(i, k[i].ext, k[i].readable, k[i].text)] : k \in [1..n -> FileKinds]}

\* [f for f in os.listdir(self.data_folder) if f.endswith(ext)]
RECURSIVE FilesEndingWith(_, _)
FilesEndingWith(files, ext) ==
    IF files = <<>> THEN <<>>
    ELSE (IF Head(files).ext = ext THEN <<Head(files)>> ELSE <<>>)
            \o FilesEndingWith(Tail(files), ext)

\* supported_files of load_documents
SupportedFiles(files, pdf_support) ==
    FilesEndingWith(files, "docx")
        \o (IF pdf_support THEN FilesEndingWith(files, "pdf") ELSE <<>>)

\* extract_text_from_docx and extract_text_from_pdf: "" when every strategy
\* raises or yields no text
ExtractText(file) ==
    IF file.readable THEN [empty |-> FALSE, text |-> file.text]
    ELSE [empty |-> TRUE, text |-> ShortText]

\* the documents load_documents makes of the chunks of one file
FileDocuments(file, text) ==
    LET chunks == SplitText(text)
    IN  [i \in 1..Len(chunks) |->
            [source |-> file.name, chunk_id |-> i - 1, file_type |-> file.ext,
             total_chunks |-> Len(chunks), offset |-> chunks[i].offset,
             len |-> chunks[i].len]]

\* the for loop of load_documents giving up at the first file without text
RECURSIVE LoadFilesUntilFailure(_)
LoadFilesUntilFailure(supported_files) ==
    IF supported_files = <<>> THEN <<>>
    ELSE LET text_content == ExtractText(Head(supported_files))
         IN  IF text_content.empty THEN <<>>
             ELSE FileDocuments(Head(supported_files), text_content.text)
                      \o LoadFilesUntilFailure(Tail(supported_files))

\* load_documents giving up at the first file without text
LoadDocumentsUntilFailure(exists, files, pdf_support) ==
    IF ~exists THEN <<>>
    ELSE LoadFilesUntilFailure(SupportedFiles(files, pdf_support))

\* the for loop of load_documents over supported_files
RECURSIVE LoadFiles(_)
LoadFiles(supported_files) ==
    IF supported_files = <<>> THEN <<>>
    ELSE LET text_content == ExtractText(Head(supported_files))
         IN  (IF text_content.empty THEN <<>>
              ELSE FileDocuments(Head(supported_files), text_content.text))
                 \o LoadFiles(Tail(supported_files))

\* DocumentLoader.load_documents()
LoadDocuments(exists, files, pdf_support) ==
    IF ~exists THEN <<>>
    ELSE LoadFiles(SupportedFiles(files, pdf_support))

LoadDocumentsArgs(n, exists, pdf_support) ==
    \E files \in Folders(n) :
        svc_in = [method |-> "load_documents", exists |-> exists, files |-> files,
                  pdf_support |-> pdf_support]

LoadDocumentsCall ==
    /\ svc_in # None /\ svc_in.method = "load_documents" /\ svc_out = None
    /\ svc_out' = [documents |-> LoadDocuments(svc_in.exists, svc_in.files, svc_in.pdf_support)]
    /\ UNCHANGED <<svc_in, rerankVars, classifierVars, askVars, storeVars>>

\* load_documents has returned
Loaded == svc_in # None /\ svc_out # None /\ svc_in.method = "load_documents"

\* the files text was extracted from
RECURSIVE Extracted(_)
Extracted(files) ==
    IF files = <<>> THEN <<>>
    ELSE (IF Head(files).readable THEN <<Head(files)>> ELSE <<>>) \o Extracted(Tail(files))

\* the documents of source name, in the order returned
RECURSIVE DocumentsFrom(_, _)
DocumentsFrom(documents, name) ==
    IF documents = <<>> THEN <<>>
    ELSE (IF Head(documents).source = name THEN <<Head(documents)>> ELSE <<>>)
            \o DocumentsFrom(Tail(documents), name)

\* C19: the documents returned are those of the folder without the files
\* whose extraction failed: none of a failed file, and of every other
\* supported file all its chunks, in order.
C19_FailedFileSkipped ==
    Loaded
        => LET documents == svc_out.documents
               supported == SupportedFiles(svc_in.files, svc_in.pdf_support)
           IN  /\ documents = LoadDocuments(svc_in.exists, Extracted(svc_in.files),
                                            svc_in.pdf_support)
               /\ \A i \in 1..Len(documents) :
                     \E j \in 1..Len(svc_in.files) :
                         /\ svc_in.files[j].name = documents[i].source
                         /\ svc_in.files[j].readable
               /\ svc_in.exists =>
                     \A j \in 1..Len(supported) :
                         supported[j].readable =>
                             LET mine == DocumentsFrom(documents, supported[j].name)
                             IN  /\ Len(mine) >= 1
                                 /\ \A c \in 1..Len(mine) :
                                       /\ mine[c].chunk_id = c - 1
                                       /\ mine[c].total_chunks = Len(mine)

\* a failed file between two supported files, both loaded
C19_Witness ==
    /\ Loaded
    /\ Len(svc_in.files) = 3
    /\ \A j \in 1..3 : svc_in.files[j].ext = "docx"
    /\ ~svc_in.files[2].readable
    /\ DocumentsFrom(svc_out.documents, 1) # <<>>
    /\ DocumentsFrom(svc_out.documents, 2) = <<>>
    /\ Len(DocumentsFrom(svc_out.documents, 3)) = 2

-----------------------------------------------------------------------------
(* Specifications                                                          *)

\* no rerank call
RerankIdle == rr_in = None /\ rr_out = None

\* the classifier as built over the small corpus, with nothing in progress
ClassifierBuilt ==
    /\ ClassifierInit
    /\ data_folder = CorpusSmall
    /\ chroma_db.topics # {}
    /\ hashOrder = "asc"

\* no ask handler
AskNone ==
    /\ handler = "none"
    /\ conversation_memory = [c \in {} |-> <<>>]
    /\ req = [s \in Slots |-> Idle]
    /\ turnCount = [c \in ConvIds |-> 0]
    /\ clearedUpTo = [c \in ConvIds |-> 0]
    /\ response = None
    /\ clears = 0

\* no initialize_vectorstore call, over a missing default directory
StoreNone ==
    /\ disk = [d \in Dirs |-> Missing]
    /\ inits = [p \in Procs |-> NoInit]
    /\ initializations = 0
    /\ rebuilt = 0

\* no retrieval or ingestion call
ServiceIdle == svc_in = None /\ svc_out = None

\* the reranker: one call of rerank on each input
RerankSpecInit == ClassifierBuilt /\ AskNone /\ StoreNone /\ ServiceIdle /\ RerankInit
RerankNext == RerankCall \/ RerankByScoreCall \/ ParseLLMRankingsCall
SpecRerank == RerankSpecInit /\ [][RerankNext]_vars

\* the classifier, reanalysed in the background while questions are classified
ClassifySpecInit == RerankIdle /\ StoreNone /\ ServiceIdle /\ ClassifierInit /\ AskNone
SpecClassify == ClassifySpecInit /\ [][ClassifierNext]_vars

\* the ask handlers and the conversation memory
Init == RerankIdle /\ ClassifierBuilt /\ StoreNone /\ ServiceIdle /\ AskInit
Next ==
    \/ \E s \in Slots : AskStart(s)
    \/ \E s \in Slots : AskSearched(s)
    \/ \E s \in Slots : AskGenerated(s)
    \/ AskDeliver
    \/ \E c \in ConvIds : ClearConversation(c)
Spec == Init /\ [][Next]_vars

\* the retrieval and ingestion services: one call on each input
ServiceInit ==
    /\ svc_out = None
    /\ \/ \E n \in 0..MaxIndexed, retriever \in BOOLEAN, raises \in BOOLEAN, k \in 0..MaxK :
             SearchDocumentsArgs(n, retriever, raises, k)
       \/ \E n \in 0..MaxIndexed, vector_store \in BOOLEAN,
             top_k \in {NoTopK} \cup {TopK(k) : k \in 0..MaxK} :
             RetrieveArgs(n, vector_store, top_k)
       \/ \E n \in 0..MaxIndexed, is_initialized \in BOOLEAN, vector_store \in BOOLEAN,
             top_k \in 0..MaxK :
             RAGSearchArgs(n, is_initialized, vector_store, top_k)
       \/ \E n \in 0..MaxHistory, vector_store \in BOOLEAN, query \in Queries :
             RetrieveWithContextArgs(n, vector_store, query)
       \/ \E text \in Texts : SplitTextArgs(text)
       \/ \E n \in 0..MaxFiles, exists \in BOOLEAN, pdf_support \in BOOLEAN :
             LoadDocumentsArgs(n, exists, pdf_support)
ServiceSpecInit == RerankIdle /\ ClassifierBuilt /\ AskNone /\ StoreNone /\ ServiceInit
ServiceNext ==
    \/ SearchDocumentsCall
    \/ RetrieveCall
    \/ RAGSearchDocumentsCall
    \/ RetrieveWithContextCall
    \/ SplitTextCall
    \/ LoadDocumentsCall
SpecServices == ServiceSpecInit /\ [][ServiceNext]_vars

\* the vector store, initialised by two processes over one disk
StoreSpecInit == RerankIdle /\ ClassifierBuilt /\ AskNone /\ ServiceIdle /\ StoreInit
SpecStore == StoreSpecInit /\ [][StoreNext]_vars

=============================================================================
